---- MODULE Spec2Model ----
(***************************************************************************)
(* Attendance submission protocol (MarkAttendance.handleSubmit), roster    *)
(* load (loadStudents) and attendance query (CheckAttendance.              *)
(* fetchAttendance) against the attendance_sessions / attendance_records   *)
(* tables with their UNIQUE constraints and row level security policies.   *)
(* Every awaited backend call is one atomic step of the database; the      *)
(* steps of different invocations interleave freely.                       *)
(***************************************************************************)
EXTENDS Integers, FiniteSets, Sequences, TLC

\* ---------------------------------------------------------------- universe
Students == {"s1", "s2"}
Classes == {"k1", "k2"}
Users == {"u1", "u2"}
Pages == {"p1", "p2"}

\* Calendar days the clock runs through.
Dates == {1, 2}
\* handleSubmit invocations explored in one behaviour.
MaxSubmits == 2
\* Rows the tables hold when statements are sent to the database directly.
MaxSessions == 2
MaxRecords == 2

\* handleSubmit invocations that can be in flight together
Subs == {1, 2}

NoClass == ""
NoSession == 0
NoPage == ""
NoUser == ""
\* NULL for a DATE parameter
NoDate == 0
\* no call of calculate_attendance_percentage yet
NoCall == [student |-> "", class |-> NoClass, from |-> NoDate, to |-> NoDate,
           value |-> 0]

PRESENT == "PRESENT"
ABSENT == "ABSENT"
LATE == "LATE"
EXCUSED == "EXCUSED"
Statuses == {PRESENT, ABSENT, LATE, EXCUSED}

\* error.message of a failed call: the request did not get through, a UNIQUE
\* constraint rejected the row, a row level security policy rejected the row
MsgNetwork == "Failed to fetch"
MsgUnique == "duplicate key value violates unique constraint"
MsgPolicy == "new row violates row-level security policy"
\* error.message of maybeSingle() for more than one matching row
MsgMultiple == "JSON object requested, multiple (or no) rows returned"

\* Toast titles
ToastNone == ""
ToastSubmitted == "Attendance submitted!"
ToastSubmitError == "Error submitting attendance"
ToastGuard == "Error"
ToastLoadStudentsError == "Error loading students"
ToastLoadClassesError == "Error loading classes"
ToastSelectClass == "Please select a class"
ToastFetchError == "Error fetching attendance"
ToastRecordsError == "Error fetching records"

Toast(title, description) == [title |-> title, description |-> description]
NoToast == Toast(ToastNone, "")

VARIABLES
  today,          \* the calendar day new Date() yields
  enrollments,    \* class_enrollments: set of <<student, class>>
  sessions,       \* attendance_sessions rows
  records,        \* attendance_records rows
  user,           \* MarkAttendance: useAuth().user of each page
  classes,        \* MarkAttendance: classes state of each page
  selectedClass,  \* MarkAttendance: selectedClass state
  students,       \* MarkAttendance: students state (student id -> present)
  loading,        \* MarkAttendance: loading state
  loads,          \* MarkAttendance: loadStudents / loadClasses calls in flight
  toast,          \* MarkAttendance: title of the last toast of the page
  sub,            \* handleSubmit invocations (closure, position, outcome)
  submits,        \* number of handleSubmit invocations started
  chk,            \* CheckAttendance page and its fetchAttendance invocation
  caller,         \* auth.uid() of the last statement sent to the database directly
  pct             \* last call of calculate_attendance_percentage and its result

vars == <<today, enrollments, sessions, records, user, classes,
          selectedClass, students, loading, loads, toast, sub, submits,
          chk, caller, pct>>

storeVars == <<sessions, records>>
envVars == <<today, enrollments>>
pageVars == <<user, classes, selectedClass, students, loading, loads, toast>>

\* ------------------------------------------------------------ the database
Min(S) == CHOOSE x \in S : \A y \in S : x <= y

\* gen_random_uuid(): an id no row of the table has
FreshId(rows) == Min((1..(Cardinality(rows) + 1)) \ {r.id : r \in rows})

\* Faulty variant: the table without its UNIQUE(class_id, session_date)
SessionUniqueOff(rows, row) == TRUE

\* UNIQUE(class_id, session_date) against the rows already stored
SessionUniqueOk(rows, row) ==
  \A r \in rows : ~(r.class_id = row.class_id /\ r.session_date = row.session_date)

\* Faulty variant: the table without its UNIQUE(session_id, student_id)
RecordUniqueOff(rows, row) == TRUE

\* UNIQUE(session_id, student_id) against the rows already stored
RecordUniqueOk(rows, row) ==
  \A r \in rows : ~(r.session_id = row.session_id /\ r.student_id = row.student_id)

\* status CHECK and the two foreign keys of attendance_records
RecordRowOk(sess, row) ==
  /\ row.status \in Statuses
  /\ \E s \in sess : s.id = row.session_id
  /\ row.student_id \in Students

\* "Teachers can create sessions": WITH CHECK (auth.uid() = marked_by)
PolicySessionInsert(uid, row) == uid = row.marked_by

\* Faulty variant: the record policies read USING (true), as the policies of
\* the students and classes tables do
PolicyRecordOpen(sess, uid, sid) == TRUE

\* "Teachers can insert/delete attendance records": the session of the record
\* is marked by the caller
PolicyRecordWrite(sess, uid, sid) ==
  \E s \in sess : s.id = sid /\ s.marked_by = uid

\* .from("attendance_sessions").select("id").eq(class_id).eq(session_date)
\* .maybeSingle(): the id of the only match, NoSession for no match
SelectSession(sess, k, d) ==
  LET m == {s \in sess : s.class_id = k /\ s.session_date = d}
  IN IF Cardinality(m) = 1 THEN (CHOOSE s \in m : TRUE).id ELSE NoSession

\* maybeSingle() reports an error for more than one match
SelectSessionError(sess, k, d) ==
  Cardinality({s \in sess : s.class_id = k /\ s.session_date = d}) > 1

RecordsOf(recs, sid) == {r \in recs : r.session_id = sid}

\* (student, status) pairs stored for a session
Triples(recs, sid) == {<<r.student_id, r.status>> : r \in RecordsOf(recs, sid)}

\* Faulty variant: the delete of the prior records removes nothing
DeleteNothing(sess, recs, uid, sid) == recs

\* DELETE FROM attendance_records WHERE session_id = sid, filtered by the
\* delete policy: rows the caller may not delete are silently kept
DeleteRecords(sess, recs, uid, sid) ==
  IF PolicyRecordWrite(sess, uid, sid) THEN recs \ RecordsOf(recs, sid) ELSE recs

\* Faulty variant: every entry is stored as present
StatusAlwaysPresent(present) == PRESENT

\* Faulty variant: only the entries marked present get a record
RosterRowsPresentOnly(sid, roster) ==
  {[session_id |-> sid, student_id |-> s, status |-> PRESENT] :
     s \in {x \in DOMAIN roster : roster[x]}}

\* Faulty variant: a student who is not present is stored as LATE
StatusLateIfAbsent(present) == IF present THEN PRESENT ELSE LATE

\* students.map(s => ({session_id, student_id: s.id,
\*                     status: s.present ? "PRESENT" : "ABSENT"}))
StatusOf(present) == IF present THEN PRESENT ELSE ABSENT

RosterRows(sid, roster) ==
  {[session_id |-> sid, student_id |-> s, status |-> StatusOf(roster[s])] :
     s \in DOMAIN roster}

\* Faulty variant: the insert policy of attendance_records reads WITH CHECK (true)
BatchPolicyOpen(sess, uid, rows) == TRUE

\* a batch INSERT is one statement: every row passes or nothing is stored
BatchPolicyOk(sess, uid, rows) ==
  \A row \in rows : PolicyRecordWrite(sess, uid, row.session_id)

BatchOk(sess, recs, uid, rows) ==
  /\ BatchPolicyOk(sess, uid, rows)
  /\ \A row \in rows : RecordRowOk(sess, row) /\ RecordUniqueOk(recs, row)

RECURSIVE StoreRows(_, _)
StoreRows(recs, rows) ==
  IF rows = {} THEN recs
  ELSE LET row == CHOOSE r \in rows : TRUE
       IN StoreRows(recs \cup {[id |-> FreshId(recs),
                                session_id |-> row.session_id,
                                student_id |-> row.student_id,
                                status |-> row.status]},
                    rows \ {row})

InsertRecords(sess, recs, uid, rows) ==
  IF BatchOk(sess, recs, uid, rows) THEN StoreRows(recs, rows) ELSE recs

\* class_enrollments rows of a class, as loadStudents maps them
Roster(k) == [s \in {x \in Students : <<x, k>> \in enrollments} |-> TRUE]


\* --------------------------------------------------------------- initial
EmptyRoster == [s \in {} |-> TRUE]

FreeSub ==
  [pc |-> "free", page |-> NoPage, class |-> NoClass, uid |-> "", date |-> 0,
   roster |-> EmptyRoster, sessionId |-> NoSession,
   lookup |-> "", del |-> "", insS |-> "",
   quiet |-> TRUE, before |-> [sessions |-> {}, records |-> {}]]

\* CheckAttendance when mounted: selectedDate is the day of the mount,
\* loadClasses is in flight
ChkInit ==
  [classes |-> {}, loadingClasses |-> TRUE,
   selectedClass |-> NoClass, selectedDate |-> 1, records |-> <<>>,
   hasSearched |-> FALSE, loading |-> FALSE, toast |-> NoToast,
   notified |-> FALSE, pc |-> "idle", session |-> NoSession]

\* data[0] of classes ordered by class_name
FirstClass == "k1"

\* rosters a page shows once loadStudents has returned and the switches have
\* been toggled: the students of some enrollment list, each present or absent
ShownRosters ==
  UNION {[D -> BOOLEAN] : D \in SUBSET Students \ {{}}}

\* class_enrollments of the migration's sample data: every student in CS101
SampleEnrollments == Students \X {FirstClass}

\* The database after the migration; two MarkAttendance pages whose class and
\* roster loads have returned: p1 of user u1 on the first class, p2 of either
\* user on either class, each showing some marked roster.
Init ==
  /\ today = 1
  /\ enrollments = SampleEnrollments
  /\ sessions = {}
  /\ records = {}
  /\ user \in {[p \in Pages |-> IF p = "p1" THEN "u1" ELSE u] : u \in Users}
  /\ classes = [p \in Pages |-> Classes]
  /\ selectedClass \in {[p \in Pages |-> IF p = "p1" THEN FirstClass ELSE k] : k \in Classes}
  /\ students \in [Pages -> ShownRosters]
  /\ loading = [p \in Pages |-> FALSE]
  /\ loads = [p \in Pages |-> {}]
  /\ toast = [p \in Pages |-> NoToast]
  /\ sub = [s \in Subs |-> FreeSub]
  /\ submits = 0
  /\ chk = ChkInit
  /\ caller = NoUser
  /\ pct = NoCall

\* A backend call either reaches the database (TRUE) or fails on the way
\* (network / backend error): a failed call changes nothing and returns error.
CallOutcomes == {TRUE, FALSE}

\* ------------------------------------------------------------ environment
\* new Date() moves to the next calendar day
Tick ==
  /\ today + 1 \in Dates
  /\ today' = today + 1
  /\ UNCHANGED <<enrollments, storeVars, pageVars, sub,
                 submits, chk, caller, pct>>

\* administrative CRUD on class_enrollments ("Teachers can manage enrollments")
Enroll(s, k) ==
  /\ <<s, k>> \notin enrollments
  /\ enrollments' = enrollments \cup {<<s, k>>}
  /\ UNCHANGED <<today, storeVars, pageVars, sub, submits, chk, caller, pct>>

Unenroll(s, k) ==
  /\ <<s, k>> \in enrollments
  /\ enrollments' = enrollments \ {<<s, k>>}
  /\ UNCHANGED <<today, storeVars, pageVars, sub, submits, chk, caller, pct>>

\* ------------------------------------------------------- MarkAttendance
\* loadClasses (started by the mount effect) returns
LoadClasses(p, ok) ==
  /\ "classes" \in loads[p]
  /\ IF ok
     THEN /\ classes' = [classes EXCEPT ![p] = Classes]
          /\ selectedClass' = [selectedClass EXCEPT ![p] = FirstClass]
          \* the [selectedClass] effect runs loadStudents
          /\ loading' = [loading EXCEPT ![p] = TRUE]
          /\ loads' = [loads EXCEPT ![p] = (@ \ {"classes"}) \cup {FirstClass}]
          /\ UNCHANGED toast
     ELSE /\ toast' = [toast EXCEPT ![p] = Toast(ToastLoadClassesError, MsgNetwork)]
          /\ loads' = [loads EXCEPT ![p] = @ \ {"classes"}]
          /\ UNCHANGED <<classes, selectedClass, loading>>
  /\ UNCHANGED <<envVars, storeVars, user, students, sub, submits, chk, caller, pct>>

\* <Select onValueChange={setSelectedClass}> and the [selectedClass] effect,
\* which calls loadStudents up to its await
\* (loads of one class that are in flight together return together)
SelectClass(p, k) ==
  /\ k \in classes[p]
  /\ k # selectedClass[p]
  /\ selectedClass' = [selectedClass EXCEPT ![p] = k]
  /\ loading' = [loading EXCEPT ![p] = TRUE]
  /\ loads' = [loads EXCEPT ![p] = @ \cup {k}]
  /\ UNCHANGED <<envVars, storeVars, user, classes, students, toast, sub,
                 submits, chk, caller, pct>>

\* the enrollment query of a loadStudents call returns
LoadStudents(p, k, ok) ==
  /\ k \in loads[p] \cap Classes
  /\ IF ok
     THEN /\ students' = [students EXCEPT ![p] = Roster(k)]
          /\ UNCHANGED toast
     ELSE /\ toast' = [toast EXCEPT ![p] = Toast(ToastLoadStudentsError, MsgNetwork)]
          /\ UNCHANGED students
  /\ loading' = [loading EXCEPT ![p] = FALSE]
  /\ loads' = [loads EXCEPT ![p] = @ \ {k}]
  /\ UNCHANGED <<envVars, storeVars, user, classes, selectedClass, sub,
                 submits, chk, caller, pct>>

\* the roster table and the submit button are rendered only in these states
RosterShown(p) == ~loading[p] /\ DOMAIN students[p] # {}

toggleAttendance(p, id) ==
  /\ RosterShown(p)
  /\ id \in DOMAIN students[p]
  /\ students' = [students EXCEPT ![p][id] = ~@]
  /\ UNCHANGED <<envVars, storeVars, user, classes, selectedClass, loading,
                 loads, toast, sub, submits, chk, caller, pct>>


\* ------------------------------------------------------- handleSubmit
\* the invocation slot a new handleSubmit call takes
FreeSlot == Min({s \in Subs : sub[s].pc = "free"})

\* sub after invocation s moved to `new`; `wrote` tells that the step changed
\* the stored sessions or records, which the other invocations note
Moved(s, new, wrote) ==
  [t \in Subs |->
     IF t = s THEN new
     ELSE IF wrote /\ sub[t].pc # "free" THEN [sub[t] EXCEPT !.quiet = FALSE]
     ELSE sub[t]]

\* click on "Submit Attendance": handleSubmit up to its first await
handleSubmit(p) ==
  /\ RosterShown(p)
  /\ submits < MaxSubmits
  /\ \E s \in Subs : sub[s].pc = "free"
  /\ submits' = submits + 1
  /\ IF selectedClass[p] = NoClass \/ user[p] = NoUser
     THEN /\ toast' = [toast EXCEPT ![p] = Toast(ToastGuard, "")]
          /\ UNCHANGED <<loading, sub>>
     ELSE /\ loading' = [loading EXCEPT ![p] = TRUE]
          /\ sub' = [sub EXCEPT ![FreeSlot] =
                       [FreeSub EXCEPT !.pc = "lookup", !.page = p,
                                       !.class = selectedClass[p],
                                       !.uid = user[p], !.date = today,
                                       !.roster = students[p],
                                       !.before = [sessions |-> sessions,
                                                   records |-> records]]]
          /\ UNCHANGED toast
  /\ UNCHANGED <<envVars, storeVars, user, classes, selectedClass, students,
                 loads, chk, caller, pct>>

\* await ...from("attendance_sessions").select("id")...maybeSingle();
\* sessionFetchError is never read
SessionLookup(s, ok) ==
  LET me == sub[s]
      hit == ok /\ ~SelectSessionError(sessions, me.class, me.date)
      existingSession ==
        IF hit THEN SelectSession(sessions, me.class, me.date) ELSE NoSession
  IN /\ me.pc = "lookup"
     /\ sub' = Moved(s,
          [me EXCEPT !.lookup = IF ~hit THEN "error"
                                ELSE IF existingSession # NoSession THEN "found"
                                ELSE "none",
                     !.sessionId = existingSession,
                     !.pc = IF existingSession # NoSession THEN "delete"
                            ELSE "insertSession"],
          FALSE)
     /\ UNCHANGED <<envVars, storeVars, pageVars, submits, chk, caller, pct>>

\* await ...from("attendance_records").delete().eq("session_id", sessionId);
\* the result of the call is not read
ClearRecords(s, ok) ==
  LET me == sub[s]
      after == IF ok THEN DeleteRecords(sessions, records, me.uid, me.sessionId)
               ELSE records
  IN /\ me.pc = "delete"
     /\ records' = after
     /\ sub' = Moved(s,
          [me EXCEPT !.del = IF ok THEN "ok" ELSE "error",
                     !.pc = "insertRecords"],
          after # records)
     /\ UNCHANGED <<envVars, sessions, pageVars, submits, chk, caller, pct>>

\* Faulty variant: the catch block shows no toast
ThrownSilently(s, me, message) ==
  /\ sub' = Moved(s, FreeSub, FALSE)
  /\ toast' = toast
  /\ loading' = [loading EXCEPT ![me.page] = FALSE]

\* Faulty variant: setLoading(false) at the end of the try block, not in finally
ThrownWhileLoading(s, me, message) ==
  /\ sub' = Moved(s, FreeSub, FALSE)
  /\ toast' = [toast EXCEPT ![me.page] = Toast(ToastSubmitError, message)]
  /\ loading' = loading

\* catch { toast(error) } finally { setLoading(false) }
Thrown(s, me, message) ==
  /\ sub' = Moved(s, FreeSub, FALSE)
  /\ toast' = [toast EXCEPT ![me.page] = Toast(ToastSubmitError, message)]
  /\ loading' = [loading EXCEPT ![me.page] = FALSE]

\* await ...from("attendance_sessions").insert({...}).select().single();
\* if (sessionError) throw sessionError
CreateSession(s, ok) ==
  LET me == sub[s]
      row == [id |-> FreshId(sessions), class_id |-> me.class,
              session_date |-> me.date, marked_by |-> me.uid]
      stored == /\ ok
                /\ PolicySessionInsert(me.uid, row)
                /\ SessionUniqueOk(sessions, row)
  IN /\ me.pc = "insertSession"
     /\ IF stored
        THEN /\ sessions' = sessions \cup {row}
             /\ sub' = Moved(s, [me EXCEPT !.insS = "ok", !.sessionId = row.id,
                                           !.pc = "insertRecords"], TRUE)
             /\ UNCHANGED <<toast, loading>>
        ELSE /\ UNCHANGED sessions
             /\ Thrown(s, me, IF ~ok THEN MsgNetwork
                               ELSE IF ~PolicySessionInsert(me.uid, row)
                               THEN MsgPolicy ELSE MsgUnique)
     /\ UNCHANGED <<envVars, records, user, classes, selectedClass, students,
                    loads, submits, chk, caller, pct>>

\* await ...from("attendance_records").insert(records);
\* if (recordsError) throw recordsError; toast("Attendance submitted!")
SubmitRecords(s, ok) ==
  LET me == sub[s]
      rows == RosterRows(me.sessionId, me.roster)
      stored == ok /\ BatchOk(sessions, records, me.uid, rows)
  IN /\ me.pc = "insertRecords"
     /\ IF stored
        THEN /\ records' = InsertRecords(sessions, records, me.uid, rows)
             /\ sub' = Moved(s, FreeSub, TRUE)
             /\ toast' = [toast EXCEPT ![me.page] = Toast(ToastSubmitted, "")]
             /\ loading' = [loading EXCEPT ![me.page] = FALSE]
        ELSE /\ UNCHANGED records
             /\ Thrown(s, me, IF ~ok THEN MsgNetwork
                               ELSE IF ~BatchPolicyOk(sessions, me.uid, rows)
                               THEN MsgPolicy ELSE MsgUnique)
     /\ UNCHANGED <<envVars, sessions, user, classes, selectedClass, students,
                    loads, submits, chk, caller, pct>>

\* ------------------------------------------------------ CheckAttendance
\* roll_number and full_name of the students join (sample data)
RollNumber(st) == IF st = "s1" THEN "STU001" ELSE "STU002"
FullName(st) == IF st = "s1" THEN "John Doe" ELSE "Mary Smith"

\* the rows of a set of records, in the backend's order (here: by id)
RECURSIVE RowsOf(_)
RowsOf(recs) ==
  IF recs = {} THEN <<>>
  ELSE LET r == CHOOSE x \in recs : \A y \in recs : x.id <= y.id
       IN <<[student_id |-> r.student_id, roll_number |-> RollNumber(r.student_id),
             full_name |-> FullName(r.student_id), status |-> r.status]>>
          \o RowsOf(recs \ {r})

\* loadClasses of CheckAttendance returns
ChkLoadClasses(ok) ==
  /\ chk.loadingClasses
  /\ chk' = IF ok
            THEN [chk EXCEPT !.loadingClasses = FALSE, !.classes = Classes,
                             !.selectedClass = FirstClass]
            ELSE [chk EXCEPT !.loadingClasses = FALSE,
                             !.toast = Toast(ToastLoadClassesError, MsgNetwork)]
  /\ UNCHANGED <<envVars, storeVars, pageVars, sub, submits, caller, pct>>

\* if (!selectedClass) { toast(...); return }
NoClassSelected(c) ==
  [c EXCEPT !.toast = Toast(ToastSelectClass, ""), !.notified = TRUE]

\* the user picks a class and a date and clicks "Fetch Attendance":
\* fetchAttendance up to its first await
fetchAttendance(k, d) ==
  /\ ~chk.loading
  /\ chk.pc = "idle"
  /\ k \in chk.classes \cup {chk.selectedClass}
  /\ LET c == [chk EXCEPT !.selectedClass = k, !.selectedDate = d,
                          !.notified = FALSE]
     IN chk' = IF k = NoClass THEN NoClassSelected(c)
               ELSE [c EXCEPT !.loading = TRUE, !.hasSearched = TRUE,
                              !.pc = "lookup"]
  /\ UNCHANGED <<envVars, storeVars, pageVars, sub, submits, caller, pct>>

\* if (sessionError) { toast(...); setLoading(false); return }
SessionError(c, message) ==
  [c EXCEPT !.toast = Toast(ToastFetchError, message), !.notified = TRUE,
            !.loading = FALSE, !.pc = "idle"]

\* Faulty variant: the rows of the previous query stay on the page
NoSessionKeepsRecords(c) == [c EXCEPT !.loading = FALSE, !.pc = "idle"]

\* if (!session) { setRecords([]); setLoading(false); return }
NoSessionFound(c) ==
  [c EXCEPT !.records = <<>>, !.loading = FALSE, !.pc = "idle"]

\* the session lookup of fetchAttendance returns
FetchSession(ok) ==
  LET many == SelectSessionError(sessions, chk.selectedClass, chk.selectedDate)
      session == SelectSession(sessions, chk.selectedClass, chk.selectedDate)
  IN /\ chk.pc = "lookup"
     /\ chk' = IF ~ok THEN SessionError(chk, MsgNetwork)
               ELSE IF many THEN SessionError(chk, MsgMultiple)
               ELSE IF session = NoSession THEN NoSessionFound(chk)
               ELSE [chk EXCEPT !.session = session, !.pc = "records"]
     /\ UNCHANGED <<envVars, storeVars, pageVars, sub, submits, caller, pct>>

\* Faulty variant: the record query lacks its .eq("session_id", session.id)
FetchRecordsUnfiltered(ok) ==
  /\ chk.pc = "records"
  /\ chk' = IF ok
            THEN [chk EXCEPT !.records = RowsOf(records),
                             !.loading = FALSE, !.pc = "idle",
                             !.session = NoSession]
            ELSE [chk EXCEPT !.toast = Toast(ToastRecordsError, MsgNetwork),
                             !.notified = TRUE,
                             !.loading = FALSE, !.pc = "idle",
                             !.session = NoSession]
  /\ UNCHANGED <<envVars, storeVars, pageVars, sub, submits, caller, pct>>

\* if (recordsError) toast(...) else setRecords(formattedRecords);
\* setLoading(false)
FetchRecords(ok) ==
  /\ chk.pc = "records"
  /\ chk' = IF ok
            THEN [chk EXCEPT !.records = RowsOf(RecordsOf(records, chk.session)),
                             !.loading = FALSE, !.pc = "idle",
                             !.session = NoSession]
            ELSE [chk EXCEPT !.toast = Toast(ToastRecordsError, MsgNetwork),
                             !.notified = TRUE,
                             !.loading = FALSE, !.pc = "idle",
                             !.session = NoSession]
  /\ UNCHANGED <<envVars, storeVars, pageVars, sub, submits, caller, pct>>

\* ------------------------------------------- statements sent directly
\* "Users can view all sessions" / "Users can view all attendance records":
\* USING (true)
PolicySessionSelect(uid, row) == TRUE
PolicyRecordSelect(uid, row) == TRUE

\* "Teachers can update own sessions" / "Teachers can delete own sessions":
\* USING (auth.uid() = marked_by); an UPDATE policy without WITH CHECK
\* applies its USING expression to the new row as well
PolicySessionWrite(uid, row) == uid = row.marked_by

\* INSERT INTO attendance_sessions (class_id, session_date, marked_by)
InsertSession(sess, uid, k, d, m) ==
  LET row == [id |-> FreshId(sess), class_id |-> k, session_date |-> d,
              marked_by |-> m]
  IN IF PolicySessionInsert(uid, row) /\ SessionUniqueOk(sess, row)
     THEN sess \cup {row} ELSE sess

\* UPDATE attendance_sessions SET class_id, session_date, marked_by
\* WHERE id = sid
UpdateSession(sess, uid, sid, k, d, m) ==
  LET hit == {x \in sess : x.id = sid /\ PolicySessionWrite(uid, x)}
      rest == sess \ hit
      new == {[id |-> x.id, class_id |-> k, session_date |-> d,
               marked_by |-> m] : x \in hit}
  IN IF \A y \in new : PolicySessionWrite(uid, y) /\ SessionUniqueOk(rest, y)
     THEN rest \cup new ELSE sess

\* DELETE FROM attendance_sessions WHERE id = sid
DeleteSession(sess, uid, sid) ==
  sess \ {x \in sess : x.id = sid /\ PolicySessionWrite(uid, x)}

\* session_id ... REFERENCES attendance_sessions(id) ON DELETE CASCADE
Cascade(sess, recs) == {r \in recs : \E x \in sess : x.id = r.session_id}

\* UPDATE attendance_records SET status WHERE id = rid
UpdateRecord(sess, recs, uid, rid, status) ==
  LET hit == {r \in recs : r.id = rid /\ PolicyRecordWrite(sess, uid, r.session_id)}
  IN IF status \in Statuses
     THEN (recs \ hit) \cup {[r EXCEPT !.status = status] : r \in hit}
     ELSE recs

StmtInsertSession(uid, k, d, m) ==
  /\ Cardinality(sessions) < MaxSessions
  /\ caller' = uid
  /\ sessions' = InsertSession(sessions, uid, k, d, m)
  /\ UNCHANGED <<envVars, records, pageVars, sub, submits, chk, pct>>

StmtUpdateSession(uid, sid, k, d, m) ==
  /\ caller' = uid
  /\ sessions' = UpdateSession(sessions, uid, sid, k, d, m)
  /\ UNCHANGED <<envVars, records, pageVars, sub, submits, chk, pct>>

StmtDeleteSession(uid, sid) ==
  /\ caller' = uid
  /\ sessions' = DeleteSession(sessions, uid, sid)
  /\ records' = Cascade(sessions', records)
  /\ UNCHANGED <<envVars, pageVars, sub, submits, chk, pct>>

StmtInsertRecord(uid, sid, st, status) ==
  /\ Cardinality(records) < MaxRecords
  /\ caller' = uid
  /\ records' = InsertRecords(sessions, records, uid,
                   {[session_id |-> sid, student_id |-> st, status |-> status]})
  /\ UNCHANGED <<envVars, sessions, pageVars, sub, submits, chk, pct>>

StmtDeleteRecords(uid, sid) ==
  /\ caller' = uid
  /\ records' = DeleteRecords(sessions, records, uid, sid)
  /\ UNCHANGED <<envVars, sessions, pageVars, sub, submits, chk, pct>>

StmtUpdateRecord(uid, rid, status) ==
  /\ caller' = uid
  /\ records' = UpdateRecord(sessions, records, uid, rid, status)
  /\ UNCHANGED <<envVars, sessions, pageVars, sub, submits, chk, pct>>

\* --------------------------------------- calculate_attendance_percentage
\* Faulty variant: the end of the date range is excluded
MatchingBeforeEnd(sess, recs, p_student_id, p_class_id, p_start_date, p_end_date) ==
  {ar \in recs :
     /\ ar.student_id = p_student_id
     /\ \E asess \in sess :
          /\ ar.session_id = asess.id
          /\ (p_class_id = NoClass \/ asess.class_id = p_class_id)
          /\ (p_start_date = NoDate \/ asess.session_date >= p_start_date)
          /\ (p_end_date = NoDate \/ asess.session_date < p_end_date)}

\* FROM attendance_records ar JOIN attendance_sessions asess
\*   ON ar.session_id = asess.id WHERE ar.student_id = p_student_id AND ...
Matching(sess, recs, p_student_id, p_class_id, p_start_date, p_end_date) ==
  {ar \in recs :
     /\ ar.student_id = p_student_id
     /\ \E asess \in sess :
          /\ ar.session_id = asess.id
          /\ (p_class_id = NoClass \/ asess.class_id = p_class_id)
          /\ (p_start_date = NoDate \/ asess.session_date >= p_start_date)
          /\ (p_end_date = NoDate \/ asess.session_date <= p_end_date)}

\* ROUND(n / d * 100, 2) of NUMERIC operands, in hundredths: the nearest
\* hundredth, a tie rounded away from zero
RoundedPercent(n, d) == (2 * n * 10000 + d) \div (2 * d)

\* the percentage in hundredths (10000 is 100.00)
calculate_attendance_percentage(sess, recs, p_student_id, p_class_id, p_start_date, p_end_date) ==
  LET rows == Matching(sess, recs, p_student_id, p_class_id, p_start_date,
                       p_end_date)
      total_sessions == Cardinality({ar.session_id : ar \in rows})
      present_count == Cardinality({ar \in rows : ar.status = PRESENT})
  IN IF total_sessions = 0 THEN 0
     ELSE RoundedPercent(present_count, total_sessions)

\* SELECT calculate_attendance_percentage(st, k, d1, d2)
Calculate(st, k, d1, d2) ==
  /\ pct' = [student |-> st, class |-> k, from |-> d1, to |-> d2,
             value |-> calculate_attendance_percentage(sessions, records,
                                                       st, k, d1, d2)]
  /\ UNCHANGED <<envVars, storeVars, pageVars, sub, submits, chk, caller>>

\* ---------------------------------------------------------- specification
Next ==
  \/ Tick
  \/ \E p \in Pages : handleSubmit(p)
  \/ \E s \in Subs, ok \in CallOutcomes : SessionLookup(s, ok)
  \/ \E s \in Subs, ok \in CallOutcomes : ClearRecords(s, ok)
  \/ \E s \in Subs, ok \in CallOutcomes : CreateSession(s, ok)
  \/ \E s \in Subs, ok \in CallOutcomes : SubmitRecords(s, ok)

Spec == Init /\ [][Next]_vars

\* The query flow next to one MarkAttendance page that submits
InitQuery ==
  /\ Init
  /\ user["p2"] = user["p1"]
  /\ selectedClass["p2"] = selectedClass["p1"]
  /\ students["p2"] = students["p1"]

NextQuery ==
  \/ Tick
  \/ handleSubmit("p1")
  \/ \E ok \in CallOutcomes : SessionLookup(1, ok)
  \/ \E ok \in CallOutcomes : ClearRecords(1, ok)
  \/ \E ok \in CallOutcomes : CreateSession(1, ok)
  \/ \E ok \in CallOutcomes : SubmitRecords(1, ok)
  \/ \E ok \in CallOutcomes : ChkLoadClasses(ok)
  \/ \E k \in Classes \cup {NoClass}, d \in Dates : fetchAttendance(k, d)
  \/ \E ok \in CallOutcomes : FetchSession(ok)
  \/ \E ok \in CallOutcomes : FetchRecords(ok)

SpecQuery == InitQuery /\ [][NextQuery]_vars


\* Statements any authenticated user sends to the two attendance tables
InitApi ==
  /\ Init
  /\ user["p2"] = user["p1"]
  /\ selectedClass["p2"] = selectedClass["p1"]
  /\ students = [p \in Pages |-> [s \in Students |-> TRUE]]

SessionIds == 0..MaxSessions
RecordIds == 1..MaxRecords

NextApi ==
  \/ \E uid \in Users, k \in Classes, d \in Dates, m \in Users :
       StmtInsertSession(uid, k, d, m)
  \/ \E uid \in Users, sid \in SessionIds, k \in Classes, d \in Dates, m \in Users :
       StmtUpdateSession(uid, sid, k, d, m)
  \/ \E uid \in Users, sid \in SessionIds : StmtDeleteSession(uid, sid)
  \/ \E uid \in Users, sid \in SessionIds, st \in Students, status \in Statuses :
       StmtInsertRecord(uid, sid, st, status)
  \/ \E uid \in Users, sid \in SessionIds : StmtDeleteRecords(uid, sid)
  \/ \E uid \in Users, rid \in RecordIds, status \in Statuses :
       StmtUpdateRecord(uid, rid, status)

SpecApi == InitApi /\ [][NextApi]_vars

\* The percentage function over stored attendance: the four sessions of the
\* two classes on the two days, where the first student has any status or no
\* record in each and the second student is present in all or in none
AllSessions ==
  {[id |-> 2 * (d - 1) + (IF k = FirstClass THEN 1 ELSE 2), class_id |-> k,
    session_date |-> d, marked_by |-> "u1"] : k \in Classes, d \in Dates}

StoredRecords(f, both) ==
  {[id |-> 2 * sid - 1, session_id |-> sid, student_id |-> "s1",
    status |-> f[sid]] : sid \in {x \in DOMAIN f : f[x] \in Statuses}}
  \cup {[id |-> 2 * x.id, session_id |-> x.id, student_id |-> "s2",
          status |-> PRESENT] : x \in {y \in AllSessions : both}}

InitPct ==
  /\ today = 2
  /\ enrollments = SampleEnrollments
  /\ sessions = AllSessions
  /\ \E f \in [{x.id : x \in AllSessions} -> Statuses \cup {"none"}],
        both \in BOOLEAN : records = StoredRecords(f, both)
  /\ user = [p \in Pages |-> "u1"]
  /\ classes = [p \in Pages |-> Classes]
  /\ selectedClass = [p \in Pages |-> FirstClass]
  /\ students = [p \in Pages |-> [s \in Students |-> TRUE]]
  /\ loading = [p \in Pages |-> FALSE]
  /\ loads = [p \in Pages |-> {}]
  /\ toast = [p \in Pages |-> NoToast]
  /\ sub = [s \in Subs |-> FreeSub]
  /\ submits = 0
  /\ chk = ChkInit
  /\ caller = NoUser
  /\ pct = NoCall

NextPct ==
  \E st \in Students, k \in Classes \cup {NoClass},
     d1 \in Dates \cup {NoDate}, d2 \in Dates \cup {NoDate} :
    Calculate(st, k, d1, d2)

SpecPct == InitPct /\ [][NextPct]_vars

\* One MarkAttendance page from its mount (class list load, class selections,
\* roster loads, submissions) next to a CheckAttendance page.
InitPage ==
  /\ today = 1
  /\ enrollments = SampleEnrollments
  /\ sessions = {}
  /\ records = {}
  /\ user = [p \in Pages |-> "u1"]
  /\ classes = [p \in Pages |-> {}]
  /\ selectedClass = [p \in Pages |-> NoClass]
  /\ students = [p \in Pages |-> EmptyRoster]
  /\ loading = [p \in Pages |-> FALSE]
  /\ loads = [p \in Pages |-> IF p = "p1" THEN {"classes"} ELSE {}]
  /\ toast = [p \in Pages |-> NoToast]
  /\ sub = [s \in Subs |-> FreeSub]
  /\ submits = 0
  /\ chk = ChkInit
  /\ caller = NoUser
  /\ pct = NoCall

NextPage ==
  \/ \E ok \in CallOutcomes : LoadClasses("p1", ok)
  \/ \E k \in Classes : SelectClass("p1", k)
  \/ \E k \in Classes, ok \in CallOutcomes : LoadStudents("p1", k, ok)
  \/ handleSubmit("p1")
  \/ \E s \in Subs, ok \in CallOutcomes : SessionLookup(s, ok)
  \/ \E s \in Subs, ok \in CallOutcomes : ClearRecords(s, ok)
  \/ \E s \in Subs, ok \in CallOutcomes : CreateSession(s, ok)
  \/ \E s \in Subs, ok \in CallOutcomes : SubmitRecords(s, ok)
  \/ \E ok \in CallOutcomes : ChkLoadClasses(ok)
  \/ \E k \in Classes \cup {NoClass} : fetchAttendance(k, today)
  \/ \E ok \in CallOutcomes : FetchSession(ok)
  \/ \E ok \in CallOutcomes : FetchRecords(ok)

SpecPage == InitPage /\ [][NextPage]_vars

\* The three flows of the claim about termination: a MarkAttendance page from
\* its mount (class list, roster of the first class, switches, submissions)
\* and a CheckAttendance page querying. Every awaited call returns at some
\* time, with data or with an error.
NextLive ==
  \/ \E ok \in CallOutcomes : LoadClasses("p1", ok)
  \/ \E k \in Classes, ok \in CallOutcomes : LoadStudents("p1", k, ok)
  \/ \E id \in Students : toggleAttendance("p1", id)
  \/ handleSubmit("p1")
  \/ \E ok \in CallOutcomes : SessionLookup(1, ok)
  \/ \E ok \in CallOutcomes : ClearRecords(1, ok)
  \/ \E ok \in CallOutcomes : CreateSession(1, ok)
  \/ \E ok \in CallOutcomes : SubmitRecords(1, ok)
  \/ \E ok \in CallOutcomes : ChkLoadClasses(ok)
  \/ \E k \in Classes \cup {NoClass} : fetchAttendance(k, today)
  \/ \E ok \in CallOutcomes : FetchSession(ok)
  \/ \E ok \in CallOutcomes : FetchRecords(ok)

Returning ==
  /\ WF_vars(\E ok \in CallOutcomes : LoadClasses("p1", ok))
  /\ WF_vars(\E k \in Classes, ok \in CallOutcomes : LoadStudents("p1", k, ok))
  /\ WF_vars(\E ok \in CallOutcomes : SessionLookup(1, ok))
  /\ WF_vars(\E ok \in CallOutcomes : ClearRecords(1, ok))
  /\ WF_vars(\E ok \in CallOutcomes : CreateSession(1, ok))
  /\ WF_vars(\E ok \in CallOutcomes : SubmitRecords(1, ok))
  /\ WF_vars(\E ok \in CallOutcomes : ChkLoadClasses(ok))
  /\ WF_vars(\E ok \in CallOutcomes : FetchSession(ok))
  /\ WF_vars(\E ok \in CallOutcomes : FetchRecords(ok))

SpecLive == InitPage /\ [][NextLive]_vars /\ Returning

\* Two MarkAttendance pages of one user on the first class, each with its own
\* marked roster, submitting while a CheckAttendance page queries that class;
\* every backend call gets through
InitRace ==
  /\ Init
  /\ user["p2"] = user["p1"]
  /\ selectedClass["p2"] = selectedClass["p1"]

NextRace ==
  \/ \E p \in Pages : handleSubmit(p)
  \/ \E s \in Subs : SessionLookup(s, TRUE)
  \/ \E s \in Subs : ClearRecords(s, TRUE)
  \/ \E s \in Subs : CreateSession(s, TRUE)
  \/ \E s \in Subs : SubmitRecords(s, TRUE)
  \/ ChkLoadClasses(TRUE)
  \/ fetchAttendance(FirstClass, today)
  \/ FetchSession(TRUE)
  \/ FetchRecords(TRUE)

SpecRace == InitRace /\ [][NextRace]_vars

\* ------------------------------------------------------------ properties
KeySessions(sess, k, d) ==
  {x \in sess : x.class_id = k /\ x.session_date = d}

\* the (student, status) pairs a roster stands for
Marked(roster) ==
  {<<st, IF roster[st] THEN "PRESENT" ELSE "ABSENT">> : st \in DOMAIN roster}

\* the records of session sid are one per roster entry, with its status
ExactlyRoster(recs, sid, roster) ==
  /\ Triples(recs, sid) = Marked(roster)
  /\ Cardinality(RecordsOf(recs, sid)) = Cardinality(DOMAIN roster)

AllTriples(recs) == {<<r.session_id, r.student_id, r.status>> : r \in recs}

\* invocation s takes its last step, the record insert
Returns(s) == sub[s].pc = "insertRecords" /\ sub'[s].pc = "free"

\* the toast the page of invocation s shows after the step
ToastAfter(s) == toast'[sub[s].page]

\* the record insert of invocation s got through to the database
Reached(s) == ToastAfter(s).description # MsgNetwork

\* invocation s found no session, created it, and nobody else wrote since it started
FirstSubmission(s) ==
  /\ sub[s].pc = "insertRecords"
  /\ sub[s].lookup = "none"
  /\ sub[s].insS = "ok"
  /\ sub[s].quiet
  /\ KeySessions(sub[s].before.sessions, sub[s].class, sub[s].date) = {}

\* invocation s found the session, its delete call got through, and nobody
\* else wrote since it started
Resubmission(s) ==
  /\ sub[s].pc = "insertRecords"
  /\ sub[s].lookup = "found"
  /\ sub[s].del = "ok"
  /\ sub[s].quiet

MarkedByCaller(s) ==
  \E x \in sessions : x.id = sub[s].sessionId /\ x.marked_by = sub[s].uid

\* C1: a submission for a (class, date) without a session, whose backend calls
\* all succeed and which no other writer disturbs, signals success and leaves
\* exactly one session for (class, date), holding exactly one record per
\* roster entry: PRESENT for a true flag, ABSENT for a false one.
C1_FirstSubmission ==
  [][\A s \in Subs :
       (Returns(s) /\ FirstSubmission(s) /\ Reached(s)) =>
         /\ ToastAfter(s).title = ToastSubmitted
         /\ Cardinality(KeySessions(sessions', sub[s].class, sub[s].date)) = 1
         /\ \A x \in KeySessions(sessions', sub[s].class, sub[s].date) :
              /\ x.id = sub[s].sessionId
              /\ ExactlyRoster(records', x.id, sub[s].roster)]_vars

C1_Witness ==
  \E s \in Subs :
    /\ FirstSubmission(s)
    /\ \E a, b \in DOMAIN sub[s].roster : sub[s].roster[a] /\ ~sub[s].roster[b]

RanOnceBefore(s) ==
  \E x \in KeySessions(sub[s].before.sessions, sub[s].class, sub[s].date) :
    /\ x.marked_by = sub[s].uid
    /\ ExactlyRoster(sub[s].before.records, x.id, sub[s].roster)

\* C3: running handleSubmit again with the same class, date, roster and flags
\* (backend calls succeeding, no other writer) signals success and leaves the
\* sessions and the (session, student, status) set the first run left.
C3_Idempotent ==
  [][\A s \in Subs :
       (Returns(s) /\ Resubmission(s) /\ RanOnceBefore(s) /\ Reached(s)) =>
         /\ ToastAfter(s).title = ToastSubmitted
         /\ sessions' = sub[s].before.sessions
         /\ AllTriples(records') = AllTriples(sub[s].before.records)]_vars

C3_Witness ==
  \E s \in Subs :
    /\ Resubmission(s)
    /\ RanOnceBefore(s)
    /\ RecordsOf(records, sub[s].sessionId) = {}
    /\ \E a, b \in DOMAIN sub[s].roster : sub[s].roster[a] /\ ~sub[s].roster[b]

\* C4: at most one attendance session per (class, date), in every state of
\* every interleaving of concurrent submissions.
C4_OneSessionPerClassDate ==
  \A a, b \in sessions :
    (a.class_id = b.class_id /\ a.session_date = b.session_date) => a = b

\* a submission that found no session is about to insert one for a (class,
\* date) another submission has created meanwhile
C4_Witness ==
  \E s \in Subs :
    /\ sub[s].pc = "insertSession"
    /\ sub[s].lookup = "none"
    /\ KeySessions(sessions, sub[s].class, sub[s].date) # {}

C5_OneRecordPerSessionStudent ==
  \A a, b \in records :
    (a.session_id = b.session_id /\ a.student_id = b.student_id) => a = b

\* the roster of invocation s has a student who already has a record in its session
Collides(s) ==
  /\ sub[s].pc = "insertRecords"
  /\ \E r \in records :
       r.session_id = sub[s].sessionId /\ r.student_id \in DOMAIN sub[s].roster

\* C5: at most one attendance record per (session, student) in every state,
\* and a record insert that would add a second one is rejected as a whole.
C5_RecordUnique ==
  /\ []C5_OneRecordPerSessionStudent
  /\ [][\A s \in Subs :
          (Collides(s) /\ Returns(s)) =>
            /\ records' = records
            /\ ToastAfter(s).title = ToastSubmitError]_vars

C5_Witness == \E s \in Subs : Collides(s) /\ MarkedByCaller(s)


\* C6: whenever handleSubmit signals success, the records of its session are
\* exactly the submitted roster. Stated for the invocations no other writer
\* disturbs, which the code must satisfy a fortiori.
C6_SuccessMeansRoster ==
  [][\A s \in Subs :
       (Returns(s) /\ sub[s].quiet /\ ToastAfter(s).title = ToastSubmitted) =>
         ExactlyRoster(records', sub[s].sessionId, sub[s].roster)]_vars

\* invocation s takes a step in which its backend call returns an error
CallFails(s) ==
  \/ sub[s].pc = "lookup" /\ sub'[s].lookup = "error"
  \/ sub[s].pc = "delete" /\ sub'[s].del = "error"
  \/ sub[s].pc = "insertSession" /\ sub'[s].pc # "insertSession"
       /\ sessions' = sessions
  \/ sub[s].pc = "insertRecords" /\ sub'[s].pc # "insertRecords"
       /\ records' = records

\* C7: a failure of the session lookup, of the delete of prior records, of the
\* session insert or of the record insert ends the invocation at once, with an
\* error notification: no later step of it is executed.
C7_FailureAborts ==
  [][\A s \in Subs :
       CallFails(s) =>
         /\ sub'[s].pc = "free"
         /\ ToastAfter(s).title = ToastSubmitError]_vars

\* C8: when the delete of the prior records fails in a resubmission (the
\* session holds records of an earlier submission, no other writer), the
\* session afterwards holds the records it held before and none of the new
\* submission.
C8_FailedClearKeepsOld ==
  [][\A s \in Subs :
       (Returns(s) /\ sub[s].lookup = "found" /\ sub[s].del = "error"
          /\ sub[s].quiet
          /\ RecordsOf(sub[s].before.records, sub[s].sessionId) # {}) =>
         RecordsOf(records', sub[s].sessionId)
           = RecordsOf(sub[s].before.records, sub[s].sessionId)]_vars

\* invocation s, having found no session, takes its session insert step
InsertsSession(s) ==
  /\ sub[s].pc = "insertSession"
  /\ sub[s].lookup = "none"
  /\ sub'[s].pc # "insertSession"

\* C9: of two submissions that both found no session for a (class, date) and
\* both insert one, the first insert that reaches the database stores the
\* session and the other is rejected by the uniqueness constraint; the
\* rejected invocation ends there with an error notification, having written
\* no session and no record.
C9_InsertRace ==
  [][\A s \in Subs :
       InsertsSession(s) =>
         IF KeySessions(sessions, sub[s].class, sub[s].date) # {}
         THEN /\ sessions' = sessions
              /\ records' = records
              /\ sub'[s].pc = "free"
              /\ ToastAfter(s).title = ToastSubmitError
              /\ ToastAfter(s).description \in {MsgUnique, MsgNetwork}
         ELSE \/ /\ sub'[s].pc = "insertRecords"
                 /\ \E x \in sessions' \ sessions :
                      /\ sessions' = sessions \cup {x}
                      /\ x.id = sub'[s].sessionId
                      /\ x.class_id = sub[s].class
                      /\ x.session_date = sub[s].date
                      /\ x.marked_by = sub[s].uid
              \/ /\ sub'[s].pc = "free"
                 /\ sessions' = sessions
                 /\ ToastAfter(s) = Toast(ToastSubmitError, MsgNetwork)]_vars

\* both invocations found no session for the same (class, date); one has
\* inserted it and the other is about to try
C9_Witness ==
  \E s, t \in Subs :
    /\ s # t
    /\ sub[s].pc = "insertSession" /\ sub[s].lookup = "none"
    /\ sub[t].lookup = "none" /\ sub[t].insS = "ok"
    /\ sub[s].class = sub[t].class /\ sub[s].date = sub[t].date
    /\ sub[s].page # sub[t].page


\* the page after a query that found nothing: no rows, loading reset
EmptyResult(c) ==
  [c EXCEPT !.records = <<>>, !.loading = FALSE, !.pc = "idle",
            !.session = NoSession]

\* the backend call the query awaited did not get through
QueryCallFailed ==
  chk'.notified /\ chk'.toast.description = MsgNetwork

\* the session lookup returns for a (class, date) that has no session
LookupFindsNone ==
  /\ chk.pc = "lookup" /\ chk'.pc # "lookup"
  /\ KeySessions(sessions, chk.selectedClass, chk.selectedDate) = {}

\* the record query returns for a session that has no record
SessionHasNoRecord ==
  /\ chk.pc = "records" /\ chk'.pc # "records"
  /\ RecordsOf(records, chk.session) = {}

\* C10: fetchAttendance for a (class, date) without a session ends with an
\* empty record list and no notification, and so does fetchAttendance for a
\* session that holds no record: the page is left in the same state.
C10_EmptyQuery ==
  [][((LookupFindsNone \/ SessionHasNoRecord) /\ ~QueryCallFailed) =>
       /\ chk' = EmptyResult(chk)
       /\ ~chk'.notified /\ chk'.hasSearched]_vars

\* rows of an earlier query are on the page and the record query is about to
\* return for a session whose records have been cleared
C10_Witness ==
  /\ chk.pc = "records"
  /\ chk.records # <<>>
  /\ RecordsOf(records, chk.session) = {}
  /\ ~chk.notified

\* the record query of fetchAttendance returns its rows
RecordsReturned ==
  chk.pc = "records" /\ chk'.pc = "idle" /\ ~chk'.notified

\* the (student, status) pairs of the rows the page shows
ShownPairs(c) ==
  {<<c.records[i].student_id, c.records[i].status>> : i \in 1..Len(c.records)}

\* the last submission of page p1 signalled success for the (class, date) the
\* query asks for, and no submission has been started since
QueryAfterSubmission ==
  /\ toast["p1"].title = ToastSubmitted
  /\ sub[1].pc = "free"
  /\ chk.selectedClass = selectedClass["p1"]
  /\ chk.selectedDate = today

VisibleSessions(uid) == {x \in sessions : PolicySessionSelect(uid, x)}
VisibleRecords(uid) == {r \in records : PolicyRecordSelect(uid, r)}

C13_PresentOrAbsent ==
  \A r \in records : r.status \in {PRESENT, ABSENT}

C13_Witness ==
  \E a, b \in records : a.status = PRESENT /\ b.status = ABSENT

\* C14: a session row appears only in the session insert of a submission for
\* a (class, date) that had no session, and no step of the submission or
\* query flow removes or changes a session row: a session, once stored, is
\* stored with the same id in every later state.
C14_SessionsStay ==
  [][/\ sessions \subseteq sessions'
     /\ \A y \in sessions' \ sessions :
          /\ KeySessions(sessions, y.class_id, y.session_date) = {}
          /\ \A x \in sessions : x.id # y.id
          /\ \E s \in Subs :
               /\ sub[s].pc = "insertSession"
               /\ sub[s].class = y.class_id /\ sub[s].date = y.session_date
               /\ sub'[s].sessionId = y.id]_vars

\* a resubmission is about to clear the records of the session a query reads
C14_Witness ==
  /\ sub[1].pc = "delete"
  /\ chk.pc = "records"
  /\ chk.session = sub[1].sessionId
  /\ RecordsOf(records, chk.session) # {}

\* invocation s found a session that another user marked
OtherUsersSession(s) ==
  /\ sub[s].lookup = "found"
  /\ \E x \in sessions : x.id = sub[s].sessionId /\ x.marked_by # sub[s].uid

\* C20: handleSubmit by a user other than the marker of the existing session
\* of (class, date) ends with the error notification and leaves the sessions
\* and the records as they are: its delete removes nothing and its record
\* insert is rejected as a whole.
C20_OtherUserRejected ==
  [][\A s \in Subs :
       /\ (sub[s].pc = "delete" /\ sub'[s].pc # "delete" /\ OtherUsersSession(s)) =>
            /\ storeVars' = storeVars
            /\ sub'[s].pc = "insertRecords"
       /\ (Returns(s) /\ OtherUsersSession(s)) =>
            /\ storeVars' = storeVars
            /\ ToastAfter(s).title = ToastSubmitError
            /\ Reached(s) => ToastAfter(s).description = MsgPolicy]_vars

\* the other user's delete got through and its roster has a student without
\* a record in the session, which holds records of its marker
C20_Witness ==
  \E s \in Subs :
    /\ sub[s].pc = "insertRecords"
    /\ OtherUsersSession(s)
    /\ sub[s].del = "ok"
    /\ RecordsOf(records, sub[s].sessionId) # {}
    /\ \E st \in DOMAIN sub[s].roster :
         \A r \in RecordsOf(records, sub[s].sessionId) : r.student_id # st

\* the sessions matching the filters of the last call in which its student
\* has a record, and the student's PRESENT records in them
MatchingSessions ==
  {x \in sessions :
     /\ pct.class \in {NoClass, x.class_id}
     /\ pct.from = NoDate \/ pct.from <= x.session_date
     /\ pct.to = NoDate \/ x.session_date <= pct.to
     /\ \E r \in records : r.session_id = x.id /\ r.student_id = pct.student}

PresentIn(S) ==
  {r \in records : /\ r.student_id = pct.student /\ r.status = PRESENT
                   /\ \E x \in S : x.id = r.session_id}

\* C17: calculate_attendance_percentage returns 0 when the student has no
\* matching session, and otherwise the hundredth nearest to PRESENT records /
\* matching sessions * 100; the result lies between 0 and 100.
C17_Percentage ==
  pct # NoCall =>
    LET t == Cardinality(MatchingSessions)
        p == Cardinality(PresentIn(MatchingSessions))
        d == pct.value * t - p * 10000
    IN /\ t = 0 => pct.value = 0
       /\ t > 0 => 2 * (IF d < 0 THEN -d ELSE d) <= t
       /\ pct.value >= 0 /\ pct.value <= 10000

\* a call over three sessions of the student, two of them PRESENT: 66.67
C17_Witness ==
  /\ pct # NoCall
  /\ Cardinality(MatchingSessions) = 3
  /\ Cardinality(PresentIn(MatchingSessions)) = 2
  /\ pct.value = 6667

\* roster loads and submissions of page p that have not returned
LoadsInFlight(p) == loads[p] \cap Classes
SubmitsInFlight(p) == {s \in Subs : sub[s].pc # "free" /\ sub[s].page = p}

StartsLoad(p) == LoadsInFlight(p)' \ LoadsInFlight(p) # {}
StartsSubmit(p) == SubmitsInFlight(p)' \ SubmitsInFlight(p) # {}

\* C15: while a roster load or a submission of a marking page is in flight,
\* that page starts no further roster load and no further submission.
C15_OneRequestAtATime ==
  [][\A p \in Pages :
       (LoadsInFlight(p) # {} \/ SubmitsInFlight(p) # {}) =>
         ~StartsLoad(p) /\ ~StartsSubmit(p)]_vars

EndsLoad(p) == LoadsInFlight(p) \ LoadsInFlight(p)' # {}
EndsSubmit(s) == sub[s].pc # "free" /\ sub'[s].pc = "free"
EndsQuery == chk.pc # "idle" /\ chk'.pc = "idle"

\* C16: every submission, roster load and query that has been started ends,
\* whatever calls fail, and the step that ends it resets the loading flag of
\* its page.
C16_EndsAndResets ==
  /\ [][/\ \A s \in Subs : EndsSubmit(s) => ~loading'[sub[s].page]
        /\ \A p \in Pages : EndsLoad(p) => ~loading'[p]
        /\ EndsQuery => ~chk'.loading]_vars
  /\ \A s \in Subs : (sub[s].pc # "free") ~> (sub[s].pc = "free")
  /\ \A p \in Pages, k \in Classes : (k \in loads[p]) ~> (k \notin loads[p])
  /\ (chk.pc # "idle") ~> (chk.pc = "idle" /\ ~chk.loading)

\* after a failed submission, a submission whose session insert is going to
\* fail and a query are in flight, both showing their loading flag
C16_Witness ==
  /\ \E s \in Subs :
       /\ sub[s].pc = "insertSession"
       /\ KeySessions(sessions, sub[s].class, sub[s].date) # {}
  /\ loading["p1"]
  /\ toast["p1"].title = ToastSubmitError
  /\ chk.pc = "records" /\ chk.loading

\* C18: when no roster load of a marking page is in flight (and none has
\* failed), the students the page holds are the students enrolled in its
\* selected class.
C18_RosterOfSelectedClass ==
  \A p \in Pages :
    (/\ LoadsInFlight(p) = {}
     /\ selectedClass[p] # NoClass
     /\ toast[p].title # ToastLoadStudentsError) =>
      DOMAIN students[p] = DOMAIN Roster(selectedClass[p])

\* C19: the rows a query shows are the complete roster of one submission,
\* with its statuses, or no rows: never rows of two submissions together and
\* never part of a roster.
C19_OneSubmissionOrNothing ==
  ShownPairs(chk) \in {{}} \cup {Marked(students[p]) : p \in Pages}

====
